---- MODULE Spec2Model ----
(***************************************************************************)
(* Certificate endpoints of the E-learning LMS backend                     *)
(* (backend/app/api/v1/endpoints/certificates.py).                         *)
(*                                                                         *)
(* The handlers are asyncio coroutines over a shared document store.       *)
(* Every `await` is a point where the event loop may run another request,  *)
(* so each handler is modelled as a sequence of steps, one per awaited     *)
(* store or renderer call; the code between two awaits (the test of the    *)
(* lookup's result, the raise, the building of the response) belongs to    *)
(* the step of the await that precedes it.                                 *)
(*                                                                         *)
(* Left out of the documents: timestamps, course name/code, instructor     *)
(* name, credential code and artifact URL.  No handler branches on them.   *)
(***************************************************************************)
EXTENDS Naturals, Sequences, FiniteSets

\* ------------------------------------------------------------------ bounds

\* Number of requests ever started.
MaxCalls == 3

Reqs     == {"r1", "r2"}
Courses  == {"c1", "c2"}
Teachers == {"t1", "t2"}
Students == {"s1", "s2"}
Titles   == {"A", "B"}
\* Optional[str]: "None" stands for Python's None.
Descriptions == {"None", "d"}

\* ----------------------------------------------------------------- values

\* The result of find_one when nothing matches.
None == [null |-> TRUE]

\* str(ObjectId) and ObjectId(str): the transport form of an identifier.
Str(oid) == [str |-> oid]
ObjectId(s) == s.str

HTTP_404_NOT_FOUND == 404
HTTP_400_BAD_REQUEST == 400
HTTP_200_OK == 200
HTTP_500_INTERNAL_SERVER_ERROR == 500

VARIABLES
    courses,              \* db.courses: course id -> document or None
    users,                \* db.users: the student ids that have a user document
    enrollments,          \* db.enrollments: set of [course_id, student_id]
    certificates,         \* db.certificates: set of template documents
    student_certificates, \* db.student_certificates: set of issued documents
    notifications,        \* db.notifications: set of notification documents
    next_id,              \* ObjectId generator of db.certificates
    req,                  \* request slot -> the coroutine's frame
    calls,                \* requests started so far
    raced,                \* history: (template, student) pairs whose existence
                          \* check was passed by two overlapping requests
    before                \* history: <<a, b>> when the request of slot a had
                          \* been answered before the request of slot b began

vars == <<courses, users, enrollments, certificates, student_certificates,
          notifications, next_id, req, calls, raced, before>>

store == <<courses, users, enrollments, certificates, student_certificates,
           notifications, next_id>>

\* --------------------------------------------------------------- documents

CourseDoc(c, t) ==
    [_id |-> c, teacher_id |-> Str(t), certificateOffered |-> FALSE,
     certificateTitle |-> "None", certificateDescription |-> "None"]

DEFAULT_TEMPLATE == "certificate_templates/default_template.png"

\* The frame of a coroutine that is not running: its arguments, its locals
\* and the response it sent.
NoResponse == [status_code |-> 0, detail |-> "", body |-> None]

Frame0 ==
    [op |-> "none", pc |-> "done",
     user |-> "-", course_id |-> Str("-"), student_id |-> Str("-"),
     title |-> "-", description |-> "-",
     course |-> None, certificate |-> None, student |-> None,
     cursor |-> <<>>, out |-> <<>>, total |-> 0, result |-> 0,
     response |-> NoResponse]

Init ==
    /\ courses = [c \in Courses |-> CourseDoc(c, IF c = "c1" THEN "t1" ELSE "t2")]
    /\ users = Students
    /\ enrollments = {[course_id |-> "c1", student_id |-> "s1"],
                      [course_id |-> "c1", student_id |-> "s2"],
                      [course_id |-> "c2", student_id |-> "s1"]}
    /\ certificates = {}
    /\ student_certificates = {}
    /\ notifications = {}
    /\ next_id = 1
    /\ req = [r \in Reqs |-> Frame0]
    /\ calls = 0
    /\ raced = {}
    /\ before = {}

\* ------------------------------------------------------------ store queries

\* Mutant: the query leaves out "teacher_id".
FindOwnedCourse_AnyTeacher(course_id, user) ==
    IF course_id \in DOMAIN courses THEN courses[course_id] ELSE None

\* db.courses.find_one({"_id": ..., "teacher_id": ...})
FindOwnedCourse(course_id, user) ==
    IF /\ course_id \in DOMAIN courses
       /\ courses[course_id] # None
       /\ courses[course_id].teacher_id = Str(user)
    THEN courses[course_id] ELSE None

\* db.courses.find_one({"_id": ...})
FindCourse(course_id) ==
    IF course_id \in DOMAIN courses THEN courses[course_id] ELSE None

\* find_one without a sort returns the first match in natural order, which
\* for these collections is the order of insertion: the least _id.
First(S) ==
    IF S = {} THEN None
    ELSE CHOOSE x \in S : \A y \in S : x._id <= y._id

\* db.certificates.find_one({"course_id": ...})
FindTemplateOfCourse(course_id) ==
    First({t \in certificates : t.course_id = course_id})

\* db.certificates.find_one({"_id": ...})
FindTemplate(id) ==
    First({t \in certificates : t._id = id})

\* db.enrollments.find_one({"course_id": ..., "student_id": ...})
IsEnrolled(course_id, student_id) ==
    [course_id |-> course_id, student_id |-> student_id] \in enrollments

\* Mutant: the query also asks for a status that no document carries.
FindIssued_StatusIssued(certificate_id, student_id) ==
    First({sc \in student_certificates :
             /\ sc.certificate_id = certificate_id
             /\ sc.student_id = student_id
             /\ sc.status = "Issued"})

\* db.student_certificates.find_one({"certificate_id": ..., "student_id": ...})
FindIssued(certificate_id, student_id) ==
    First({sc \in student_certificates :
             sc.certificate_id = certificate_id /\ sc.student_id = student_id})

\* db.users.find_one({"_id": ...})
FindUser(student_id) ==
    IF student_id \in users THEN [_id |-> student_id, username |-> student_id]
    ELSE None

\* A cursor's documents in natural (insertion) order.
RECURSIVE InOrder(_)
InOrder(S) ==
    IF S = {} THEN <<>>
    ELSE <<First(S)>> \o InOrder(S \ {First(S)})

\* ------------------------------------------------------------- the requests

Running(r) == req[r].pc # "done"

\* A request starts: the framework has authenticated the caller and bound
\* the parameters; the locals are fresh.
Begin(r, op, pc, user, course_id, student_id, title, description) ==
    /\ ~Running(r)
    /\ calls < MaxCalls
    /\ calls' = calls + 1
    /\ req' = [req EXCEPT ![r] =
                 [Frame0 EXCEPT !.op = op, !.pc = pc, !.user = user,
                                !.course_id = course_id,
                                !.student_id = student_id,
                                !.title = title,
                                !.description = description]]
    /\ before' = {p \in before : p[1] # r /\ p[2] # r} \cup
                 {<<o, r>> : o \in {x \in Reqs \ {r} :
                                      ~Running(x) /\ req[x].op # "none"}}
    /\ UNCHANGED <<store, raced>>

\* The handler raises HTTPException or returns: the frame keeps the
\* arguments and the response, the locals are dropped.
Finished(f, status_code, detail, body) ==
    [Frame0 EXCEPT !.op = f.op, !.user = f.user, !.course_id = f.course_id,
                   !.student_id = f.student_id, !.title = f.title,
                   !.description = f.description,
                   !.response = [status_code |-> status_code,
                                 detail |-> detail, body |-> body]]

At(r, op, pc) == req[r].op = op /\ req[r].pc = pc

\* ------------------------------------------- create_certificate_template

CreateCall(r, T, C, Ti, D) ==
    \E t \in T, c \in C, ti \in Ti, d \in D :
        Begin(r, "create", "c_course", t, Str(c), Str("-"), ti, d)

StartCreate(r) == CreateCall(r, Teachers, Courses, Titles, Descriptions)

\* The workload of the issuance and listing specifications: no handler but
\* create_certificate_template reads a template's title or description.
StartCreateDefault(r) == CreateCall(r, Teachers, Courses, {"A"}, {"None"})

\* lines 28-37
CreateFindCourse(r) ==
    /\ At(r, "create", "c_course")
    /\ LET f == req[r]
           course == FindOwnedCourse(ObjectId(f.course_id), f.user)
       IN  req' = [req EXCEPT ![r] =
                IF course = None
                THEN Finished(f, HTTP_404_NOT_FOUND,
                        "Course not found or you don't have permission", None)
                ELSE [f EXCEPT !.course = course, !.pc = "c_existing"]]
    /\ UNCHANGED <<store, calls, raced, before>>

\* lines 40-44
CreateFindExisting(r) ==
    /\ At(r, "create", "c_existing")
    /\ LET f == req[r]
           existing_certificate == FindTemplateOfCourse(ObjectId(f.course_id))
       IN  req' = [req EXCEPT ![r] =
                IF existing_certificate = None
                THEN [f EXCEPT !.pc = "c_insert"]
                ELSE [f EXCEPT !.certificate = existing_certificate,
                               !.pc = "c_update"]]
    /\ UNCHANGED <<store, calls, raced, before>>

\* lines 46-56: update_one by _id; no document matched is not an error.
CreateUpdate(r) ==
    /\ At(r, "create", "c_update")
    /\ LET f == req[r] IN
       /\ certificates' =
            {IF t._id = f.certificate._id
             THEN [t EXCEPT !.title = f.title, !.description = f.description]
             ELSE t : t \in certificates}
       /\ req' = [req EXCEPT ![r] =
                    [f EXCEPT !.result = f.certificate._id,
                              !.pc = "c_mark"]]
    /\ UNCHANGED <<courses, users, enrollments, student_certificates,
                   notifications, next_id, calls, raced, before>>

\* lines 59-69
CreateInsert(r) ==
    /\ At(r, "create", "c_insert")
    /\ LET f == req[r] IN
       /\ certificates' = certificates \cup
            {[_id |-> next_id, course_id |-> ObjectId(f.course_id),
              title |-> f.title, description |-> f.description,
              template |-> DEFAULT_TEMPLATE]}
       /\ next_id' = next_id + 1
       /\ req' = [req EXCEPT ![r] =
                    [f EXCEPT !.result = next_id, !.pc = "c_mark"]]
    /\ UNCHANGED <<courses, users, enrollments, student_certificates,
                   notifications, calls, raced, before>>

\* lines 72-92: update_one on the course by _id, then the response.
CreateMarkCourse(r) ==
    /\ At(r, "create", "c_mark")
    /\ LET f == req[r]
           c == ObjectId(f.course_id)
       IN
       /\ courses' =
            IF c \in DOMAIN courses /\ courses[c] # None
            THEN [courses EXCEPT ![c] =
                    [@ EXCEPT !.certificateOffered = TRUE,
                              !.certificateTitle = f.title,
                              !.certificateDescription = f.description]]
            ELSE courses
       /\ req' = [req EXCEPT ![r] =
            Finished(f, HTTP_200_OK, "Certificate template created successfully",
                     [_id |-> Str(f.result), title |-> f.title,
                      description |-> f.description, course_id |-> f.course_id,
                      template |-> DEFAULT_TEMPLATE])]
    /\ UNCHANGED <<users, enrollments, certificates, student_certificates,
                   notifications, next_id, calls, raced, before>>

CreateStep(r) ==
    \/ CreateFindCourse(r)
    \/ CreateFindExisting(r)
    \/ CreateUpdate(r)
    \/ CreateInsert(r)
    \/ CreateMarkCourse(r)

\* ------------------------------------------------------ issue_certificate

IssueCall(r, T, C, S) ==
    \E t \in T, c \in C, st \in S :
        Begin(r, "issue", "i_course", t, Str(c), Str(st), "-", "-")

StartIssue(r) == IssueCall(r, Teachers, Courses, Students)

\* lines 104-113
IssueFindCourse(r) ==
    /\ At(r, "issue", "i_course")
    /\ LET f == req[r]
           course == FindOwnedCourse(ObjectId(f.course_id), f.user)
       IN  req' = [req EXCEPT ![r] =
                IF course = None
                THEN Finished(f, HTTP_404_NOT_FOUND,
                        "Course not found or you don't have permission", None)
                ELSE [f EXCEPT !.course = course, !.pc = "i_template"]]
    /\ UNCHANGED <<store, calls, raced, before>>

\* Mutant: the enrollment is checked before the template.
IssueFindTemplate_EnrollmentFirst(r) ==
    /\ At(r, "issue", "i_template")
    /\ LET f == req[r]
           certificate == FindTemplateOfCourse(ObjectId(f.course_id))
       IN  req' = [req EXCEPT ![r] =
                IF ~IsEnrolled(ObjectId(f.course_id), ObjectId(f.student_id))
                THEN Finished(f, HTTP_404_NOT_FOUND,
                        "Student not enrolled in this course", None)
                ELSE IF certificate = None
                THEN Finished(f, HTTP_404_NOT_FOUND,
                        "No certificate template found for this course", None)
                ELSE [f EXCEPT !.certificate = certificate,
                               !.pc = "i_enrollment"]]
    /\ UNCHANGED <<store, calls, raced, before>>

\* lines 116-124
IssueFindTemplate(r) ==
    /\ At(r, "issue", "i_template")
    /\ LET f == req[r]
           certificate == FindTemplateOfCourse(ObjectId(f.course_id))
       IN  req' = [req EXCEPT ![r] =
                IF certificate = None
                THEN Finished(f, HTTP_404_NOT_FOUND,
                        "No certificate template found for this course", None)
                ELSE [f EXCEPT !.certificate = certificate,
                               !.pc = "i_enrollment"]]
    /\ UNCHANGED <<store, calls, raced, before>>

\* lines 127-136
IssueFindEnrollment(r) ==
    /\ At(r, "issue", "i_enrollment")
    /\ LET f == req[r] IN
       req' = [req EXCEPT ![r] =
                IF ~IsEnrolled(ObjectId(f.course_id), ObjectId(f.student_id))
                THEN Finished(f, HTTP_404_NOT_FOUND,
                        "Student not enrolled in this course", None)
                ELSE [f EXCEPT !.pc = "i_existing"]]
    /\ UNCHANGED <<store, calls, raced, before>>

\* Another request for the same (template, student) has passed the
\* existence check and has not inserted yet.
InWindow(r, certificate_id, student_id) ==
    \E o \in Reqs \ {r} :
        /\ req[o].op = "issue"
        /\ req[o].pc \in {"i_student", "i_render", "i_insert"}
        /\ req[o].certificate._id = certificate_id
        /\ req[o].student_id = student_id

\* Mutant: the result of the existence query is not acted on.
IssueFindExisting_NoRaise(r) ==
    /\ At(r, "issue", "i_existing")
    /\ LET f == req[r]
           existing_certificate ==
               FindIssued(f.certificate._id, ObjectId(f.student_id))
       IN
       /\ req' = [req EXCEPT ![r] = [f EXCEPT !.pc = "i_student"]]
       /\ raced' =
            IF /\ existing_certificate = None
               /\ InWindow(r, f.certificate._id, f.student_id)
            THEN raced \cup {<<f.certificate._id, ObjectId(f.student_id)>>}
            ELSE raced
    /\ UNCHANGED <<store, calls, before>>

\* lines 139-148
IssueFindExisting(r) ==
    /\ At(r, "issue", "i_existing")
    /\ LET f == req[r]
           existing_certificate ==
               FindIssued(f.certificate._id, ObjectId(f.student_id))
       IN
       /\ req' = [req EXCEPT ![r] =
                IF existing_certificate # None
                THEN Finished(f, HTTP_400_BAD_REQUEST,
                        "Certificate already issued to this student", None)
                ELSE [f EXCEPT !.pc = "i_student"]]
       /\ raced' =
            IF /\ existing_certificate = None
               /\ InWindow(r, f.certificate._id, f.student_id)
            THEN raced \cup {<<f.certificate._id, ObjectId(f.student_id)>>}
            ELSE raced
    /\ UNCHANGED <<store, calls, before>>

\* lines 151-156
IssueFindStudent(r) ==
    /\ At(r, "issue", "i_student")
    /\ LET f == req[r]
           student == FindUser(ObjectId(f.student_id))
       IN  req' = [req EXCEPT ![r] =
                IF student = None
                THEN Finished(f, HTTP_404_NOT_FOUND, "Student not found", None)
                ELSE [f EXCEPT !.student = student, !.pc = "i_render"]]
    /\ UNCHANGED <<store, calls, raced, before>>

\* The document of lines 173-182.
StudentCertificateData(f, id) ==
    [_id |-> id,
     certificate_id |-> f.certificate._id,
     student_id |-> ObjectId(f.student_id),
     course_id |-> ObjectId(f.course_id),
     status |-> "Available"]

\* The document of lines 187-196.
NotificationData(f, id) ==
    [_id |-> id, type |-> "certificate",
     recipient_id |-> ObjectId(f.student_id),
     sender_id |-> f.user,
     course_id |-> ObjectId(f.course_id)]

\* lines 159-170: generate_certificate returns the artifact's URL.
IssueRender(r) ==
    /\ At(r, "issue", "i_render")
    /\ req' = [req EXCEPT ![r] = [req[r] EXCEPT !.pc = "i_insert"]]
    /\ UNCHANGED <<store, calls, raced, before>>

\* Mutant: the document is inserted before the renderer is called.
IssueRenderFails_AfterInsert(r) ==
    /\ At(r, "issue", "i_render")
    /\ student_certificates' = student_certificates \cup
            {StudentCertificateData(req[r], Cardinality(student_certificates) + 1)}
    /\ req' = [req EXCEPT ![r] =
                Finished(req[r], HTTP_500_INTERNAL_SERVER_ERROR,
                         "generate_certificate raised", None)]
    /\ UNCHANGED <<courses, users, enrollments, certificates, notifications,
                   next_id, calls, raced, before>>

\* lines 162-170: generate_certificate raises; the exception leaves the
\* handler and the framework answers 500.
IssueRenderFails(r) ==
    /\ At(r, "issue", "i_render")
    /\ req' = [req EXCEPT ![r] =
                Finished(req[r], HTTP_500_INTERNAL_SERVER_ERROR,
                         "generate_certificate raised", None)]
    /\ UNCHANGED <<store, calls, raced, before>>

\* Mutant: the notification is inserted where the certificate should be.
IssueInsert_NotifiesFirst(r) ==
    /\ At(r, "issue", "i_insert")
    /\ LET f == req[r] IN
       /\ notifications' = notifications \cup
            {NotificationData(f, Cardinality(notifications) + 1)}
       /\ req' = [req EXCEPT ![r] = [f EXCEPT !.pc = "i_notify"]]
    /\ UNCHANGED <<courses, users, enrollments, certificates,
                   student_certificates, next_id, calls, raced, before>>

\* lines 173-184
IssueInsert(r) ==
    /\ At(r, "issue", "i_insert")
    /\ LET f == req[r]
           id == Cardinality(student_certificates) + 1
       IN
       /\ student_certificates' =
            student_certificates \cup {StudentCertificateData(f, id)}
       /\ req' = [req EXCEPT ![r] = [f EXCEPT !.result = id, !.pc = "i_notify"]]
    /\ UNCHANGED <<courses, users, enrollments, certificates, notifications,
                   next_id, calls, raced, before>>

\* lines 187-213
IssueNotify(r) ==
    /\ At(r, "issue", "i_notify")
    /\ LET f == req[r]
           data == StudentCertificateData(f, f.result)
       IN
       /\ notifications' = notifications \cup
            {NotificationData(f, Cardinality(notifications) + 1)}
       /\ req' = [req EXCEPT ![r] =
            Finished(f, HTTP_200_OK, "Certificate issued successfully",
                     [_id |-> Str(data._id),
                      certificate_id |-> Str(data.certificate_id),
                      student_id |-> Str(data.student_id),
                      course_id |-> Str(data.course_id),
                      status |-> data.status])]
    /\ UNCHANGED <<courses, users, enrollments, certificates,
                   student_certificates, next_id, calls, raced, before>>

\* line 198: notifications.insert_one raises; nothing undoes the insert of
\* line 184.
IssueNotifyFails(r) ==
    /\ At(r, "issue", "i_notify")
    /\ req' = [req EXCEPT ![r] =
                Finished(req[r], HTTP_500_INTERNAL_SERVER_ERROR,
                         "notifications.insert_one raised", None)]
    /\ UNCHANGED <<store, calls, raced, before>>

IssueStep(r) ==
    \/ IssueFindCourse(r)
    \/ IssueFindTemplate(r)
    \/ IssueFindEnrollment(r)
    \/ IssueFindExisting(r)
    \/ IssueFindStudent(r)
    \/ IssueRender(r)
    \/ IssueRenderFails(r)
    \/ IssueInsert(r)
    \/ IssueNotify(r)
    \/ IssueNotifyFails(r)

\* ------------------------------------------------ get_student_certificates

StartStudentList(r) ==
    \E st \in Students :
        Begin(r, "student_list", "s_find", st, Str("-"), Str("-"), "-", "-")

\* lines 232-235: the identifiers of an issued document, stringified.
Stringified(cert) ==
    [cert EXCEPT !._id = Str(@), !.certificate_id = Str(@),
                 !.student_id = Str(@), !.course_id = Str(@)]

\* lines 232-241
WithTemplate(cert, template) ==
    [_id |-> Str(cert._id), certificate_id |-> Str(cert.certificate_id),
     student_id |-> Str(cert.student_id), course_id |-> Str(cert.course_id),
     status |-> cert.status,
     title |-> template.title, description |-> template.description]

\* lines 288-292
WithStudent(cert, student) ==
    [_id |-> Str(cert._id), certificate_id |-> Str(cert.certificate_id),
     student_id |-> Str(cert.student_id), course_id |-> Str(cert.course_id),
     status |-> cert.status, student_name |-> student.username]

\* lines 222-226: the first iteration fetches the cursor's documents.
StudentListFind(r) ==
    /\ At(r, "student_list", "s_find")
    /\ LET f == req[r]
           cursor == InOrder({sc \in student_certificates :
                                sc.student_id = f.user})
       IN  req' = [req EXCEPT ![r] =
                IF cursor = <<>>
                THEN Finished(f, HTTP_200_OK, "", [certificates |-> <<>>])
                ELSE [f EXCEPT !.cursor = cursor, !.pc = "s_course"]]
    /\ UNCHANGED <<store, calls, raced, before>>

\* line 228
StudentListCourse(r) ==
    /\ At(r, "student_list", "s_course")
    /\ LET f == req[r]
           cert == Head(f.cursor)
       IN  req' = [req EXCEPT ![r] =
                [f EXCEPT !.course = FindCourse(cert.course_id),
                          !.pc = "s_template"]]
    /\ UNCHANGED <<store, calls, raced, before>>

\* Mutant: the test of line 231 is "if course:".
StudentListTemplate_CourseOnly(r) ==
    /\ At(r, "student_list", "s_template")
    /\ LET f == req[r]
           cert == Head(f.cursor)
           found == FindTemplate(cert.certificate_id)
           template == IF found = None
                       THEN [title |-> "None", description |-> "None"]
                       ELSE found
           out == IF f.course # None
                  THEN Append(f.out, WithTemplate(cert, template))
                  ELSE f.out
       IN  req' = [req EXCEPT ![r] =
                IF Tail(f.cursor) = <<>>
                THEN Finished(f, HTTP_200_OK, "", [certificates |-> out])
                ELSE [f EXCEPT !.cursor = Tail(f.cursor), !.out = out,
                               !.course = None, !.pc = "s_course"]]
    /\ UNCHANGED <<store, calls, raced, before>>

\* lines 229-244
StudentListTemplate(r) ==
    /\ At(r, "student_list", "s_template")
    /\ LET f == req[r]
           cert == Head(f.cursor)
           template == FindTemplate(cert.certificate_id)
           out == IF f.course # None /\ template # None
                  THEN Append(f.out, WithTemplate(cert, template))
                  ELSE f.out
       IN  req' = [req EXCEPT ![r] =
                IF Tail(f.cursor) = <<>>
                THEN Finished(f, HTTP_200_OK, "", [certificates |-> out])
                ELSE [f EXCEPT !.cursor = Tail(f.cursor), !.out = out,
                               !.course = None, !.pc = "s_course"]]
    /\ UNCHANGED <<store, calls, raced, before>>

StudentListStep(r) ==
    \/ StudentListFind(r)
    \/ StudentListCourse(r)
    \/ StudentListTemplate(r)

\* ------------------------------------------------- get_course_certificates

StartCourseList(r) ==
    \E t \in Teachers, c \in Courses :
        Begin(r, "course_list", "l_course", t, Str(c), Str("-"), "-", "-")

\* lines 255-264
CourseListFindCourse(r) ==
    /\ At(r, "course_list", "l_course")
    /\ LET f == req[r]
           course == FindOwnedCourse(ObjectId(f.course_id), f.user)
       IN  req' = [req EXCEPT ![r] =
                IF course = None
                THEN Finished(f, HTTP_404_NOT_FOUND,
                        "Course not found or you don't have permission", None)
                ELSE [f EXCEPT !.course = course, !.pc = "l_template"]]
    /\ UNCHANGED <<store, calls, raced, before>>

\* lines 296-304
CourseListBody(template, certs) ==
    [certificate_template |->
        [_id |-> Str(template._id), title |-> template.title,
         description |-> template.description,
         template |-> template.template,
         course_id |-> Str(template.course_id)],
     issued_certificates |-> certs]

\* lines 267-275
CourseListFindTemplate(r) ==
    /\ At(r, "course_list", "l_template")
    /\ LET f == req[r]
           template == FindTemplateOfCourse(ObjectId(f.course_id))
       IN  req' = [req EXCEPT ![r] =
                IF template = None
                THEN Finished(f, HTTP_200_OK, "",
                        [certificate_template |-> None,
                         issued_certificates |-> <<>>])
                ELSE [f EXCEPT !.certificate = template, !.pc = "l_find"]]
    /\ UNCHANGED <<store, calls, raced, before>>

\* lines 278-283: the first iteration fetches the cursor's documents.
CourseListFind(r) ==
    /\ At(r, "course_list", "l_find")
    /\ LET f == req[r]
           cursor == InOrder({sc \in student_certificates :
                                sc.course_id = ObjectId(f.course_id)})
       IN  req' = [req EXCEPT ![r] =
                IF cursor = <<>>
                THEN Finished(f, HTTP_200_OK, "",
                              CourseListBody(f.certificate, <<>>))
                ELSE [f EXCEPT !.cursor = cursor, !.pc = "l_student"]]
    /\ UNCHANGED <<store, calls, raced, before>>

\* lines 285-304
CourseListStudent(r) ==
    /\ At(r, "course_list", "l_student")
    /\ LET f == req[r]
           cert == Head(f.cursor)
           student == FindUser(cert.student_id)
           out == IF student # None
                  THEN Append(f.out, WithStudent(cert, student))
                  ELSE f.out
       IN  req' = [req EXCEPT ![r] =
                IF Tail(f.cursor) = <<>>
                THEN Finished(f, HTTP_200_OK, "",
                              CourseListBody(f.certificate, out))
                ELSE [f EXCEPT !.cursor = Tail(f.cursor), !.out = out]]
    /\ UNCHANGED <<store, calls, raced, before>>

CourseListStep(r) ==
    \/ CourseListFindCourse(r)
    \/ CourseListFindTemplate(r)
    \/ CourseListFind(r)
    \/ CourseListStudent(r)

\* ---------------------------------------------------- get_all_certificates

StartAdminList(r) ==
    Begin(r, "admin_list", "a_count", "admin", Str("-"), Str("-"), "-", "-")

\* line 308
AdminListCount(r) ==
    /\ At(r, "admin_list", "a_count")
    /\ req' = [req EXCEPT ![r] =
                [req[r] EXCEPT !.total = Cardinality(student_certificates),
                               !.pc = "a_find"]]
    /\ UNCHANGED <<store, calls, raced, before>>

RECURSIVE StringifiedAll(_)
StringifiedAll(docs) ==
    IF docs = <<>> THEN <<>>
    ELSE <<Stringified(Head(docs))>> \o StringifiedAll(Tail(docs))

\* lines 309-319: the first iteration fetches the cursor's documents.
AdminListFind(r) ==
    /\ At(r, "admin_list", "a_find")
    /\ LET f == req[r] IN
       req' = [req EXCEPT ![r] =
                Finished(f, HTTP_200_OK, "",
                    [total |-> f.total,
                     certificates |->
                        StringifiedAll(InOrder(student_certificates))])]
    /\ UNCHANGED <<store, calls, raced, before>>

AdminListStep(r) == AdminListCount(r) \/ AdminListFind(r)

\* ----------------------------------------------------- other collaborators

\* The documents the other collaborators remove in this model: one of each
\* kind, so that every listing meets a dangling reference and an intact one.
RemovedUsers == {"s1"}
RemovedCourses == {"c2"}
RemovedTemplatesOf == {"c1"}

\* User management removes a student's user document.
DeleteUser ==
    /\ \E st \in users \cap RemovedUsers : users' = users \ {st}
    /\ UNCHANGED <<courses, enrollments, certificates, student_certificates,
                   notifications, next_id, req, calls, raced, before>>

\* Course management removes a course.
DeleteCourse ==
    /\ \E c \in RemovedCourses :
        /\ courses[c] # None
        /\ courses' = [courses EXCEPT ![c] = None]
    /\ UNCHANGED <<users, enrollments, certificates, student_certificates,
                   notifications, next_id, req, calls, raced, before>>

\* A template document is removed.
DeleteTemplate ==
    /\ \E t \in certificates :
        /\ t.course_id \in RemovedTemplatesOf
        /\ certificates' = certificates \ {t}
    /\ UNCHANGED <<courses, users, enrollments, student_certificates,
                   notifications, next_id, req, calls, raced, before>>

\* ------------------------------------------------------------ specifications

NextIssue ==
    \/ \E r \in Reqs : StartCreateDefault(r) \/ CreateStep(r)
    \/ \E r \in Reqs : StartIssue(r) \/ IssueStep(r)
    \/ DeleteUser

SpecIssue == Init /\ [][NextIssue]_vars

\* The store once both teachers have defined their templates (title "A",
\* no description) and s1 holds a certificate of each course: what four
\* requests of SpecIssue, run one after the other, leave behind
\* (create c1, create c2, issue c1/s1, issue c2/s1).
Issued(id, template_id, c, st) ==
    [_id |-> id, certificate_id |-> template_id, student_id |-> st,
     course_id |-> c, status |-> "Available"]

Notified(id, c, t, st) ==
    [_id |-> id, type |-> "certificate", recipient_id |-> st,
     sender_id |-> t, course_id |-> c]

Template(id, c) ==
    [_id |-> id, course_id |-> c, title |-> "A", description |-> "None",
     template |-> DEFAULT_TEMPLATE]

InitListing ==
    /\ courses = [c \in Courses |->
                    [CourseDoc(c, IF c = "c1" THEN "t1" ELSE "t2")
                        EXCEPT !.certificateOffered = TRUE,
                               !.certificateTitle = "A"]]
    /\ users = Students
    /\ enrollments = {[course_id |-> "c1", student_id |-> "s1"],
                      [course_id |-> "c1", student_id |-> "s2"],
                      [course_id |-> "c2", student_id |-> "s1"]}
    /\ certificates = {Template(1, "c1"), Template(2, "c2")}
    /\ student_certificates = {Issued(1, 1, "c1", "s1"), Issued(2, 2, "c2", "s1")}
    /\ notifications = {Notified(1, "c1", "t1", "s1"), Notified(2, "c2", "t2", "s1")}
    /\ next_id = 3
    /\ req = [r \in Reqs |-> Frame0]
    /\ calls = 0
    /\ raced = {}
    /\ before = {}

\* The listings, while c1's teacher issues s2's certificate and the other
\* collaborators remove documents.
StartIssueLast(r) == IssueCall(r, {"t1"}, {"c1"}, {"s2"})

NextListing ==
    \/ \E r \in Reqs : StartIssueLast(r) \/ IssueStep(r)
    \/ \E r \in Reqs : StartStudentList(r) \/ StudentListStep(r)
    \/ \E r \in Reqs : StartCourseList(r) \/ CourseListStep(r)
    \/ DeleteUser
    \/ DeleteCourse
    \/ DeleteTemplate

SpecListing == InitListing /\ [][NextListing]_vars

NextAdmin ==
    \/ \E r \in Reqs : StartCreateDefault(r) \/ CreateStep(r)
    \/ \E r \in Reqs : StartIssue(r) \/ IssueStep(r)
    \/ \E r \in Reqs : StartAdminList(r) \/ AdminListStep(r)

SpecAdmin == Init /\ [][NextAdmin]_vars

\* The whole router. The specifications above and below are this one with
\* the requests limited to the handlers under study.
Next ==
    \/ \E r \in Reqs : StartCreate(r) \/ CreateStep(r)
    \/ \E r \in Reqs : StartIssue(r) \/ IssueStep(r)
    \/ \E r \in Reqs : StartStudentList(r) \/ StudentListStep(r)
    \/ \E r \in Reqs : StartCourseList(r) \/ CourseListStep(r)
    \/ \E r \in Reqs : StartAdminList(r) \/ AdminListStep(r)
    \/ DeleteUser
    \/ DeleteCourse
    \/ DeleteTemplate

Spec == Init /\ [][Next]_vars

NextTemplates == \E r \in Reqs : StartCreate(r) \/ CreateStep(r)

SpecTemplates == Init /\ [][NextTemplates]_vars

\* ------------------------------------------------------------------ claims

IssueFrames == {r \in Reqs : req[r].op = "issue"}

Answered(f, status_code, detail) ==
    /\ f.pc = "done"
    /\ f.response.status_code = status_code
    /\ f.response.detail = detail

Owns(t, c) == courses[c] # None /\ courses[c].teacher_id = Str(t)

HasTemplate(c) == \E t \in certificates : t.course_id = c

CertsOf(c, st) ==
    {sc \in student_certificates : sc.course_id = c /\ sc.student_id = st}

NotificationsOf(c, st) ==
    {n \in notifications : n.type = "certificate" /\ n.course_id = c
                           /\ n.recipient_id = st}

SamePair(a, b) ==
    a.certificate_id = b.certificate_id /\ a.student_id = b.student_id

\* C1 (as claimed): in every reachable state there is at most one
\* student_certificates document for each (template, student) pair.
C1_AtMostOnePerPair ==
    \A a, b \in student_certificates : SamePair(a, b) => a = b

\* C1 (amended): two student_certificates documents for the same (template,
\* student) pair exist only if two issue_certificate requests for that pair
\* overlapped between the existence check and the insert.
C1_AtMostOneUnlessOverlap ==
    \A a, b \in student_certificates :
        SamePair(a, b) /\ a # b => <<a.certificate_id, a.student_id>> \in raced

\* A second request for an issued pair was refused, and no requests overlapped.
C1_Witness ==
    /\ raced = {}
    /\ \E r \in IssueFrames :
        /\ Answered(req[r], HTTP_400_BAD_REQUEST,
                    "Certificate already issued to this student")
        /\ CertsOf(ObjectId(req[r].course_id), ObjectId(req[r].student_id)) # {}

\* C2: when the owning teacher's issue_certificate call for a course and a
\* student has been answered 200 before a second call for the same course
\* and student begins, the first call has persisted a document with status
\* Available, and the second call never gets past the existence check: it
\* inserts nothing and its answer is 400 "already issued". A request is
\* answered 400 only when the pair has an issued document.
C2_SecondCallConflicts ==
    /\ \A r \in IssueFrames :
        Answered(req[r], HTTP_400_BAD_REQUEST,
                 "Certificate already issued to this student")
        => CertsOf(ObjectId(req[r].course_id), ObjectId(req[r].student_id)) # {}
    /\ \A a, b \in IssueFrames :
        ( /\ <<a, b>> \in before
          /\ req[a].user = req[b].user
          /\ req[a].course_id = req[b].course_id
          /\ req[a].student_id = req[b].student_id
          /\ req[a].response.status_code = HTTP_200_OK )
        =>
        /\ req[a].response.body.status = "Available"
        /\ \E sc \in student_certificates :
                /\ Str(sc._id) = req[a].response.body._id
                /\ sc.status = "Available"
                /\ sc.course_id = ObjectId(req[a].course_id)
                /\ sc.student_id = ObjectId(req[a].student_id)
        /\ req[b].pc \in {"i_course", "i_template", "i_enrollment",
                          "i_existing", "done"}
        /\ req[b].result = 0
        /\ req[b].pc = "done" =>
                Answered(req[b], HTTP_400_BAD_REQUEST,
                         "Certificate already issued to this student")

\* The second of two sequential calls has been answered 400.
C2_Witness ==
    \E a, b \in IssueFrames :
        /\ <<a, b>> \in before
        /\ req[a].user = req[b].user
        /\ req[a].course_id = req[b].course_id
        /\ req[a].student_id = req[b].student_id
        /\ req[a].response.status_code = HTTP_200_OK
        /\ req[b].response.status_code = HTTP_400_BAD_REQUEST

\* C3: in every reachable state each course has at most one template
\* document in db.certificates.
C3_OneTemplatePerCourse ==
    \A a, b \in certificates : a.course_id = b.course_id => a = b

\* The verdict of one validation step of issue_certificate, from frame f to
\* frame g: the step's own check decides, by the documents stored when it
\* runs, between the next step and the step's own error.
C4_Verdict(f, g) ==
    LET c  == ObjectId(f.course_id)
        st == ObjectId(f.student_id)
    IN  CASE f.pc = "i_course" ->
               IF Owns(f.user, c) THEN g.pc = "i_template"
               ELSE Answered(g, HTTP_404_NOT_FOUND,
                        "Course not found or you don't have permission")
          [] f.pc = "i_template" ->
               /\ Owns(f.user, c)
               /\ IF HasTemplate(c) THEN g.pc = "i_enrollment"
                  ELSE Answered(g, HTTP_404_NOT_FOUND,
                        "No certificate template found for this course")
          [] f.pc = "i_enrollment" ->
               /\ Owns(f.user, c) /\ HasTemplate(c)
               /\ IF IsEnrolled(c, st) THEN g.pc = "i_existing"
                  ELSE Answered(g, HTTP_404_NOT_FOUND,
                        "Student not enrolled in this course")
          [] f.pc = "i_existing" ->
               /\ Owns(f.user, c) /\ HasTemplate(c) /\ IsEnrolled(c, st)
               /\ IF \E sc \in student_certificates :
                        /\ sc.certificate_id = f.certificate._id
                        /\ sc.student_id = st
                  THEN Answered(g, HTTP_400_BAD_REQUEST,
                        "Certificate already issued to this student")
                  ELSE g.pc = "i_student"
          [] f.pc = "i_student" ->
               /\ Owns(f.user, c) /\ HasTemplate(c) /\ IsEnrolled(c, st)
               /\ IF st \in users THEN g.pc = "i_render"
                  ELSE Answered(g, HTTP_404_NOT_FOUND, "Student not found")
          [] OTHER -> TRUE

\* C4: the checks of issue_certificate run in the order course/owner,
\* template, enrollment, already issued, student record; each check runs only
\* when the ones before it have passed and answers with its own error (404,
\* 404, 404, 400, 404) exactly when it fails, so a course without a template
\* is answered "no template" whether or not the student is enrolled.
C4_FirstFailingCheck ==
    [][\A r \in Reqs :
         (req[r].op = "issue" /\ req'[r] # req[r]) => C4_Verdict(req[r], req'[r])
      ]_vars

\* Both "in particular" cases: one request was answered "no template" for a
\* student who is not enrolled, another "not enrolled" with a template.
C4_Witness ==
    \E a, b \in IssueFrames :
        /\ Answered(req[a], HTTP_404_NOT_FOUND,
                    "No certificate template found for this course")
        /\ ~IsEnrolled(ObjectId(req[a].course_id), ObjectId(req[a].student_id))
        /\ Answered(req[b], HTTP_404_NOT_FOUND,
                    "Student not enrolled in this course")
        /\ HasTemplate(ObjectId(req[b].course_id))

RefusedOrNotRendered(g) ==
    /\ g.pc = "done"
    /\ \/ g.response.status_code \in {HTTP_404_NOT_FOUND, HTTP_400_BAD_REQUEST}
       \/ Answered(g, HTTP_500_INTERNAL_SERVER_ERROR,
                   "generate_certificate raised")

\* C5: the step in which an issue_certificate request fails a validation
\* check or the renderer raises changes neither student_certificates nor
\* notifications, and the request has inserted nothing before it; the only
\* step that adds to student_certificates is the one after the renderer has
\* returned.
C5_FailureWritesNothing ==
    [][/\ \A r \in Reqs :
            ( /\ req[r].op = "issue" /\ req[r].pc # "done"
              /\ RefusedOrNotRendered(req'[r]) )
            => /\ student_certificates' = student_certificates
               /\ notifications' = notifications
               /\ req[r].result = 0
       /\ student_certificates' # student_certificates =>
            \E r \in Reqs :
                /\ req[r].op = "issue" /\ req[r].pc = "i_insert"
                /\ req'[r].pc = "i_notify"
                /\ student_certificates \subseteq student_certificates'
                /\ Cardinality(student_certificates') =
                        Cardinality(student_certificates) + 1
      ]_vars

\* The renderer raised and the pair has no issued document.
C5_Witness ==
    \E r \in IssueFrames :
        /\ Answered(req[r], HTTP_500_INTERNAL_SERVER_ERROR,
                    "generate_certificate raised")
        /\ CertsOf(ObjectId(req[r].course_id), ObjectId(req[r].student_id)) = {}

\* C6: every issued document is for an enrolled (course, student) pair and
\* names a template of that same course; a request that has passed the
\* checks is by the teacher who owns the course, and the document it inserts
\* carries its course, its student and the template it found; a request by a
\* teacher who does not own the course never leaves the first check, where
\* it is answered 404, so it writes nothing.
C6_IssuedOnlyWhenEntitled ==
    /\ \A sc \in student_certificates :
        /\ IsEnrolled(sc.course_id, sc.student_id)
        /\ \E t \in certificates :
                t._id = sc.certificate_id /\ t.course_id = sc.course_id
    /\ \A r \in IssueFrames :
        LET f == req[r]
            c == ObjectId(f.course_id)
            st == ObjectId(f.student_id)
        IN  /\ ~Owns(f.user, c) =>
                 /\ f.pc \in {"i_course", "done"}
                 /\ f.pc = "done" =>
                      Answered(f, HTTP_404_NOT_FOUND,
                          "Course not found or you don't have permission")
            /\ f.pc \in {"i_render", "i_insert", "i_notify"} =>
                 /\ Owns(f.user, c)
                 /\ f.certificate \in certificates
                 /\ f.certificate.course_id = c
                 /\ IsEnrolled(c, st)
            /\ f.pc = "i_notify" =>
                 [_id |-> f.result, certificate_id |-> f.certificate._id,
                  student_id |-> st, course_id |-> c, status |-> "Available"]
                    \in student_certificates

\* A teacher who does not own the course was refused although the course has
\* a template and the student is enrolled; nothing was issued for the pair.
C6_Witness ==
    \E r \in IssueFrames :
        LET c == ObjectId(req[r].course_id)
            st == ObjectId(req[r].student_id)
        IN  /\ ~Owns(req[r].user, c)
            /\ Answered(req[r], HTTP_404_NOT_FOUND,
                        "Course not found or you don't have permission")
            /\ HasTemplate(c) /\ IsEnrolled(c, st)
            /\ CertsOf(c, st) = {}
            /\ student_certificates # {}

\* C7: the total that get_all_certificates returns is the number of
\* documents in the list it returns.
C7_TotalIsListLength ==
    \A r \in Reqs :
        (req[r].op = "admin_list" /\ req[r].response.status_code = HTTP_200_OK)
        => req[r].response.body.total = Len(req[r].response.body.certificates)

\* The documents a listing has gathered after a step: the response's list
\* once answered, the frame's list before.
Gathered(g, field) ==
    IF g.pc = "done" THEN g.response.body[field] ELSE g.out

\* What the step that decides on the cursor's head leaves in frame g:
\* the head appended when it is kept, the list as it was when it is not.
Kept(f, g, field, keep) ==
    LET cert == Head(f.cursor)
        old == f.out
        new == Gathered(g, field)
    IN  /\ IF keep
           THEN /\ Len(new) = Len(old) + 1
                /\ SubSeq(new, 1, Len(old)) = old
                /\ new[Len(new)]._id = Str(cert._id)
                /\ new[Len(new)].student_id = Str(cert.student_id)
                /\ new[Len(new)].course_id = Str(cert.course_id)
           ELSE new = old
        /\ g.response.status_code \in {0, HTTP_200_OK}
        /\ IF Len(f.cursor) = 1 THEN g.pc = "done"
           ELSE g.pc # "done" /\ g.cursor = Tail(f.cursor)

Fetched(g, field, docs) ==
    IF docs = {}
    THEN g.pc = "done" /\ g.response.status_code = HTTP_200_OK
         /\ g.response.body[field] = <<>>
    ELSE /\ g.pc # "done" /\ g.out = <<>>
         /\ Len(g.cursor) = Cardinality(docs)
         /\ {g.cursor[i] : i \in 1..Len(g.cursor)} = docs

C8_Verdict(f, g) ==
    CASE f.op = "student_list" /\ f.pc = "s_find" ->
            Fetched(g, "certificates",
                    {sc \in student_certificates : sc.student_id = f.user})
      [] f.op = "student_list" /\ f.pc = "s_course" ->
            /\ g.cursor = f.cursor /\ g.out = f.out /\ g.pc # "done"
            /\ (g.course # None) <=> (courses[Head(f.cursor).course_id] # None)
      [] f.op = "student_list" /\ f.pc = "s_template" ->
            Kept(f, g, "certificates",
                 /\ f.course # None
                 /\ \E t \in certificates :
                        t._id = Head(f.cursor).certificate_id)
      [] f.op = "course_list" /\ f.pc = "l_find" ->
            Fetched(g, "issued_certificates",
                    {sc \in student_certificates :
                        sc.course_id = ObjectId(f.course_id)})
      [] f.op = "course_list" /\ f.pc = "l_student" ->
            Kept(f, g, "issued_certificates",
                 Head(f.cursor).student_id \in users)
      [] OTHER -> TRUE

\* C8: get_student_certificates fetches exactly the caller's issued
\* documents and returns, in order, those whose course document and template
\* document it finds; get_course_certificates, for a course with a template,
\* fetches exactly the course's issued documents and returns those whose
\* student's user document it finds. A document whose reference is missing
\* is left out and the answer is still 200.
C8_ListingsSkipDangling ==
    [][\A r \in Reqs : req'[r] # req[r] => C8_Verdict(req[r], req'[r])]_vars

\* Both listings have left a document out: s1 holds two certificates and is
\* shown one, c1 has issued one certificate and its teacher is shown none.
C8_Witness ==
    \E a, b \in Reqs :
        /\ req[a].op = "student_list" /\ req[a].response.status_code = HTTP_200_OK
        /\ Len(req[a].response.body.certificates) = 1
        /\ Cardinality({sc \in student_certificates :
                            sc.student_id = req[a].user}) = 2
        /\ req[b].op = "course_list" /\ req[b].response.status_code = HTTP_200_OK
        /\ req[b].response.body.certificate_template # None
        /\ req[b].response.body.issued_certificates = <<>>
        /\ CertsOf(ObjectId(req[b].course_id), "s1") # {}

NotifyOwed(c, st) ==
    {r \in IssueFrames :
        /\ ObjectId(req[r].course_id) = c
        /\ ObjectId(req[r].student_id) = st
        /\ \/ req[r].pc = "i_notify"
           \/ Answered(req[r], HTTP_500_INTERNAL_SERVER_ERROR,
                       "notifications.insert_one raised")}

\* C9: for every (course, student), the certificate notifications, together
\* with the requests that have inserted their certificate and have not
\* inserted (or have failed to insert) their notification, are no more than
\* the issued documents: a notification always has its certificate, and a
\* request that failed between the two inserts has left the certificate.
C9_CertificateBeforeNotification ==
    \A c \in Courses, st \in Students :
        Cardinality(NotificationsOf(c, st)) + Cardinality(NotifyOwed(c, st))
            <= Cardinality(CertsOf(c, st))

\* A request failed between the two inserts: the certificate is there, the
\* notification is not.
C9_Witness ==
    \E r \in IssueFrames :
        /\ Answered(req[r], HTTP_500_INTERNAL_SERVER_ERROR,
                    "notifications.insert_one raised")
        /\ Cardinality(CertsOf(ObjectId(req[r].course_id),
                               ObjectId(req[r].student_id))) = 1
        /\ NotificationsOf(ObjectId(req[r].course_id),
                           ObjectId(req[r].student_id)) = {}

\* C10: whenever no create_certificate_template request is running, every
\* course that has a template is marked certificateOffered and carries that
\* template's title and description.
C10_CourseCarriesTemplate ==
    (\A r \in Reqs : ~(req[r].op = "create" /\ req[r].pc # "done"))
    => \A t \in certificates :
         courses[t.course_id] # None =>
            /\ courses[t.course_id].certificateOffered
            /\ courses[t.course_id].certificateTitle = t.title
            /\ courses[t.course_id].certificateDescription = t.description

====
